---- MODULE Spec2Model ----
(***************************************************************************)
(* Email threading library (EmailThreadingManager): the decision between   *)
(* replying into the stored conversation and starting a new one, the       *)
(* threading headers it builds, and the script-property store it keeps.    *)
(*                                                                         *)
(* Text is modelled as sequences of tokens.  A subject line is a sequence  *)
(* of characters; a raw header block is a sequence of tokens in which a    *)
(* header name with its colon, an angle bracket, a blank, CR, LF and an    *)
(* identifier are one token each.                                          *)
(***************************************************************************)
EXTENDS Integers, Sequences, FiniteSets, TLC

\* ------------------------------------------------------------------ bounds
MaxSubjectLen == 4      \* longest base subject drawn for the subject machine
MaxStacked    == 8      \* characters of "Re:" prefixes stacked before a subject
MaxThreads    == 2      \* conversations the provider holds before its quota is used up

\* ------------------------------------------------------------- text helpers
NULL == "null"

IsSpace(c) == c \in {" ", "\t", "\r", "\n"}

IsLineBreak(c) == c \in {"\r", "\n"}

\* case folding of the tokens that the /i patterns look for
Lower(c) ==
  CASE c \in {"R", "r"} -> "r"
    [] c \in {"E", "e"} -> "e"
    [] c \in {"Message-ID:", "Message-Id:", "message-id:", "MESSAGE-ID:"} -> "message-id:"
    [] c \in {"References:", "references:", "REFERENCES:"} -> "references:"
    [] OTHER -> c

\* s without its first n elements
Drop(s, n) == SubSeq(s, n + 1, Len(s))

\* String.prototype.trim
RECURSIVE TrimLeft(_)
TrimLeft(s) == IF s # <<>> /\ IsSpace(s[1]) THEN TrimLeft(Tail(s)) ELSE s

RECURSIVE TrimRight(_)
TrimRight(s) ==
  IF s # <<>> /\ IsSpace(s[Len(s)]) THEN TrimRight(SubSeq(s, 1, Len(s) - 1)) ELSE s

Trim(s) == TrimRight(TrimLeft(s))

\* number of leading whitespace tokens of s (a greedy \s*)
RECURSIVE SpaceRun(_)
SpaceRun(s) == IF s # <<>> /\ IsSpace(s[1]) THEN 1 + SpaceRun(Tail(s)) ELSE 0

\* ------------------------------------------------------ formatReplySubject
\* ReGroupLen as it would be without the i flag of the pattern
ReGroupLenCaseSensitive(s) ==
  IF /\ Len(s) >= 3
     /\ s[1] = "R"
     /\ s[2] = "e"
     /\ s[3] = ":"
  THEN 3 + SpaceRun(Drop(s, 3))
  ELSE 0

\* one iteration of the group (Re:\s*) at the head of s, case-insensitive:
\* the number of characters it consumes, 0 when it does not match
ReGroupLen(s) ==
  IF /\ Len(s) >= 3
     /\ Lower(s[1]) = "r"
     /\ Lower(s[2]) = "e"
     /\ s[3] = ":"
  THEN 3 + SpaceRun(Drop(s, 3))
  ELSE 0

\* subject.replace(/^(Re:\s*)+/i, '')
RECURSIVE StripRePrefixes(_)
StripRePrefixes(s) ==
  IF ReGroupLen(s) = 0 THEN s ELSE StripRePrefixes(Drop(s, ReGroupLen(s)))

RePrefix == <<"R", "e", ":", " ">>

\* formatReplySubject as it would be if it put "Re: " in front of the subject
\* as it is
formatReplySubjectUnstripped(subject) == RePrefix \o subject

\* formatReplySubject(subject)
formatReplySubject(subject) == RePrefix \o StripRePrefixes(subject)

\* ------------------------------------------------- threading header parsing
\* a header field of a message: its name (colon included), the blanks after
\* the colon, its value and the blanks before the line end
Hdr(name, sep, value, trail) ==
  [name |-> name, sep |-> sep, value |-> value, trail |-> trail]

RenderHeader(h) == <<h.name>> \o h.sep \o h.value \o h.trail \o <<"\r", "\n">>

\* GmailMessage.getRawContent(): the header block as unfolded lines
RECURSIVE getRawContent(_)
getRawContent(headers) ==
  IF headers = <<>> THEN <<>>
  ELSE RenderHeader(Head(headers)) \o getRawContent(Tail(headers))

\* position of the first ">" of s, 0 when there is none
RECURSIVE FirstClose(_, _)
FirstClose(s, i) ==
  IF i > Len(s) THEN 0 ELSE IF s[i] = ">" THEN i ELSE FirstClose(s, i + 1)

\* MessageIdAt as it would be with the group around the angle brackets
MessageIdAtWithBrackets(raw, i) ==
  IF Lower(raw[i]) # "message-id:" THEN <<>>
  ELSE LET rest  == Drop(raw, i)
           after == Drop(rest, SpaceRun(rest))
           close == FirstClose(after, 2)
       IN  IF after # <<>> /\ after[1] = "<" /\ close >= 3
           THEN SubSeq(after, 1, close)
           ELSE <<>>

\* /Message-ID:\s*<([^>]+)>/i tried at position i: the captured group,
\* <<>> when the pattern does not match there
MessageIdAt(raw, i) ==
  IF Lower(raw[i]) # "message-id:" THEN <<>>
  ELSE LET rest  == Drop(raw, i)
           after == Drop(rest, SpaceRun(rest))
           close == FirstClose(after, 2)
       IN  IF after # <<>> /\ after[1] = "<" /\ close >= 3
           THEN SubSeq(after, 2, close - 1)
           ELSE <<>>

\* rawContent.match(/Message-ID:\s*<([^>]+)>/i): leftmost match, group 1
RECURSIVE MessageIdMatch(_, _)
MessageIdMatch(raw, i) ==
  IF i > Len(raw) THEN <<>>
  ELSE IF MessageIdAt(raw, i) # <<>> THEN MessageIdAt(raw, i)
  ELSE MessageIdMatch(raw, i + 1)

\* number of leading tokens of s that are neither CR nor LF ([^\r\n]+)
RECURSIVE LineRun(_)
LineRun(s) == IF s # <<>> /\ ~IsLineBreak(s[1]) THEN 1 + LineRun(Tail(s)) ELSE 0

\* the whitespace a backtracking \s* gives up: the largest k <= n with a
\* token that is not a line break right after the first k tokens of s, -1
\* when there is none
RECURSIVE BacktrackSpace(_, _)
BacktrackSpace(s, k) ==
  IF k < 0 THEN -1
  ELSE IF k < Len(s) /\ ~IsLineBreak(s[k + 1]) THEN k
  ELSE BacktrackSpace(s, k - 1)

\* /References:\s*([^\r\n]+)/i tried at position i: <<TRUE, group 1>> on a
\* match, <<FALSE, <<>>>> otherwise
ReferencesAt(raw, i) ==
  IF Lower(raw[i]) # "references:" THEN <<FALSE, <<>>>>
  ELSE LET rest == Drop(raw, i)
           k    == BacktrackSpace(rest, SpaceRun(rest))
       IN  IF k < 0 THEN <<FALSE, <<>>>>
           ELSE <<TRUE, SubSeq(rest, k + 1, k + LineRun(Drop(rest, k)))>>

\* rawContent.match(/References:\s*([^\r\n]+)/i), then group 1 trimmed;
\* <<>> for null (and for a value that trims to the empty string)
RECURSIVE ReferencesMatch(_, _)
ReferencesMatch(raw, i) ==
  IF i > Len(raw) THEN <<>>
  ELSE IF ReferencesAt(raw, i)[1] THEN Trim(ReferencesAt(raw, i)[2])
  ELSE ReferencesMatch(raw, i + 1)

NoHeaders == [messageId |-> <<>>, references |-> <<>>]

\* extractThreadingHeaders(message); rawOk is false when getRawContent raises
\* (or the message is undefined), which the function catches
extractThreadingHeaders(headers, rawOk) ==
  IF rawOk
  THEN [messageId  |-> MessageIdMatch(getRawContent(headers), 1),
        references |-> ReferencesMatch(getRawContent(headers), 1)]
  ELSE NoHeaders

GmailDomain == "@mail.gmail.com"

\* extractMessageIdAlternative as it would be if it handed back the provider's
\* id as it is, without the mail domain
extractMessageIdAlternativeBare(pid, idOk) ==
  IF idOk THEN <<pid>> ELSE <<>>

\* extractMessageIdAlternative(message); idOk is false when getId raises or
\* returns nothing
extractMessageIdAlternative(pid, idOk) ==
  IF idOk THEN <<pid, GmailDomain>> ELSE <<>>

Bracket(id) == <<"<">> \o id \o <<">">>

\* buildReferencesHeader as it would be if it put the first message's id in
\* front of the existing chain
buildReferencesHeaderPrepend(threadingInfo) ==
  LET start == threadingInfo.references
  IN  IF threadingInfo.messageId # <<>>
      THEN Bracket(threadingInfo.messageId)
           \o (IF start # <<>> THEN <<" ">> \o start ELSE <<>>)
      ELSE start

\* buildReferencesHeader(threadingInfo, messages)
buildReferencesHeader(threadingInfo) ==
  LET start == threadingInfo.references
  IN  IF threadingInfo.messageId # <<>>
      THEN (IF start # <<>> THEN start \o <<" ">> ELSE <<>>)
           \o Bracket(threadingInfo.messageId)
      ELSE start

\* ------------------------------------------------------------ configuration
DefaultThreadIdProperty == <<"emailThreadId">>

\* the configurations a caller may pass to the constructor; an empty
\* threadIdProperty is a missing one, an empty recipientEmail is the invalid
\* recipient that the provider rejects
CallerConfig(key, to, subj) ==
  [threadIdProperty |-> key, recipientEmail |-> to, emailSubject |-> subj]

CallerConfigs ==
  {CallerConfig(<<>>, "group@googlegroups.com", <<"H">>),
   CallerConfig(<<"weeklyThreadId">>, "a@x.com,b@x.com", <<"R", "E", ":", "H">>),
   CallerConfig(<<"weeklyThreadId">>, "", <<"H">>)}

\* constructor(config)
EmailThreadingManager(config) ==
  [threadIdProperty |-> IF config.threadIdProperty # <<>>
                        THEN config.threadIdProperty
                        ELSE DefaultThreadIdProperty,
   recipientEmail   |-> config.recipientEmail,
   emailSubject     |-> config.emailSubject]

\* the derived breadcrumb keys
PreviousKey(k)     == <<"previousThreadId_">> \o k
ArchivedKey(k)     == <<"archived_">> \o k
ArchivedDateKey(k) == <<"archived_date_">> \o k

ThreadIdProperties ==
  {EmailThreadingManager(c).threadIdProperty : c \in CallerConfigs}

PropKeys ==
  UNION {{k, PreviousKey(k), ArchivedKey(k), ArchivedDateKey(k)} :
         k \in ThreadIdProperties}

\* ------------------------------------------------------------ the provider
ThreadNames == <<"t1", "t2", "t3", "t4", "t5", "t6">>
MsgIdNames  == <<"m1@x.com", "m2@x.com", "m3@x.com", "m4@x.com", "m5@x.com", "m6@x.com">>
PidNames    == <<"p1", "p2", "p3", "p4", "p5", "p6">>
ThreadIds   == {ThreadNames[n] : n \in 1..MaxThreads}
Timestamps  == {"2025-01-01T00:00:00.000Z", "2025-01-02T00:00:00.000Z"}

Me       == "me@x.com"
External == "member@y.com"

NoThread == [exists |-> FALSE]

SubjectHdr == Hdr("Subject:", <<" ">>, <<"S">>, <<>>)

\* the header block of a message the script itself sent: the raw content the
\* provider hands back may or may not include the Message-ID line
SentHeaderBlocks(m) ==
  {<<SubjectHdr, Hdr("Message-ID:", <<" ">>, <<"<", m, ">">>, <<>>)>>,
   <<SubjectHdr>>}

\* the header blocks of the first message of a conversation that is already
\* in the mailbox when the manager is constructed: either letter case of the
\* header names, with and without a References line, in either order
HeaderBlocks(m) ==
  LET upper == Hdr("Message-ID:", <<" ">>, <<"<", m, ">">>, <<>>)
      lower == Hdr("message-id:", <<>>, <<"<", m, ">">>, <<>>)
      chain == Hdr("References:", <<" ">>, <<"<", "a", ">", " ", "<", "b", ">">>, <<>>)
      padded == Hdr("REFERENCES:", <<" ", " ">>, <<"<", "a", ">">>, <<" ">>)
  IN  SentHeaderBlocks(m)
        \cup {<<lower, SubjectHdr>>, <<chain, upper>>, <<padded, lower>>,
              <<lower, chain>>, <<chain, SubjectHdr>>}

Thread(headers, pid, subj, from) ==
  [exists |-> TRUE, headers |-> headers, pid |-> pid, subject |-> subj,
   lastFrom |-> from]

\* the messages that came after the first one, where the mailbox keeps them
Later(t) == IF "later" \in DOMAIN t THEN t.later ELSE <<>>

\* thread.getMessages(): the first message, then the later ones
Messages(t) == <<[headers |-> t.headers, pid |-> t.pid]>> \o Later(t)

\* FirstMessage as it would be if the headers were taken from the last message
\* of the conversation
FirstMessageLast(messages) == messages[Len(messages)]

\* messages[0], the message replyToExistingThread takes the headers from
FirstMessage(messages) == messages[1]

\* ------------------------------------------------------------------- state
\* the invocations of sendThreadedEmail that may be in progress: the script's
\* triggers are expected to run one at a time (Main); a second one exists for
\* runs in which two triggers overlap
Procs == {1, 2}
Main  == 1

VARIABLES
  props,        \* the script properties: key -> value or NULL
  mailbox,      \* thread id -> conversation (its first message, last author),
                \* as far as the library can still get at it
  nextThread,   \* index of the id the provider assigns next
  cfg,          \* this.config of the manager each invocation runs on
  pc,           \* position of each sendThreadedEmail invocation
  loc,          \* its local variables
  result,       \* what it returned: "none", "true", "false" or "raised"
  sent,         \* the messages the provider dispatched for it, in order
  props0,       \* the properties when it, or the last resetThreading, started
  lastOp,       \* the last sendThreadedEmail or resetThreading call: "send",
                \* "reset", "resetRaised" (a store call of it raised), or
                \* "none" before the first one
  info,         \* what the last getThreadInfo returned
  subject,      \* subject machine: the subject handed to formatReplySubject
  replySubject  \* subject machine: what formatReplySubject returned

vars == <<props, mailbox, nextThread, cfg, pc, loc, result, sent, props0,
          lastOp, info, subject, replySubject>>

\* the options argument of sendThreadedEmail(htmlBody, options = {}): the
\* default, and options in which the caller put headers of its own
NoOptions == [headers |-> [inReplyTo |-> <<>>, references |-> <<>>]]

CallerOptions ==
  {NoOptions,
   [headers |-> [inReplyTo  |-> <<"<", "x@y.com", ">">>,
                 references |-> <<"<", "w@y.com", ">", " ", "<", "x@y.com", ">">>]]}

\* options.headers[name], <<>> when the caller gave no such header
OptionHeader(options, name) == options.headers[name]

NoLoc ==
  [storedThreadId |-> NULL, thread |-> NULL, messages |-> "none",
   threadingInfo |-> NoHeaders, oldThreadId |-> NULL, newThreadId |-> NULL,
   options |-> NoOptions,
   \* history of the invocation, read by the properties only
   reply |-> "none", lookups |-> 0, raw |-> "none", lastFrom |-> NULL,
   raisedAt |-> "none", prevOp |-> "none", asked |-> <<>>]

NoInfo == [returned |-> FALSE]

Idle == \A p \in Procs : pc[p] = "idle"

\* A conversation whose id is under no persistence key and in no running
\* invocation can never be looked up again: the 'previous' and 'archived_'
\* keys are written and reported but never read back into a lookup.  The
\* mailbox keeps such a conversation, but no longer what is in it.
Forgotten == [exists |-> TRUE, forgotten |-> TRUE]

\* the mailbox mb once invocation q has ended and the store holds store
Forget(mb, store, q) ==
  [t \in DOMAIN mb |->
     IF \/ ~mb[t].exists
        \/ \E k \in ThreadIdProperties : store[k] = t
        \/ \E r \in Procs \ {q} :
             pc[r] # "idle" /\ t \in {loc[r].storedThreadId, loc[r].newThreadId}
     THEN mb[t]
     ELSE Forgotten]

InitCommon ==
  /\ nextThread = 2
  /\ pc = [p \in Procs |-> "idle"]
  /\ loc = [p \in Procs |-> NoLoc]
  /\ result = [p \in Procs |-> "none"]
  /\ sent = [p \in Procs |-> <<>>]
  /\ lastOp = "none"
  /\ info = NoInfo

\* After construction: the manager holds its configuration; the properties
\* and the mailbox are whatever earlier runs left behind
Init ==
  /\ \E c \in CallerConfigs : cfg = [p \in Procs |-> EmailThreadingManager(c)]
  /\ \E t \in {NoThread}
            \cup {Thread(h, PidNames[1], <<"R", "e", ":", " ", "H">>, Me) :
                    h \in HeaderBlocks(MsgIdNames[1])} :
       mailbox = [i \in ThreadIds |-> IF i = ThreadNames[1] THEN t ELSE NoThread]
  /\ \E cur \in {NULL, ThreadNames[1]} :
       /\ (cur = NULL => ~mailbox[ThreadNames[1]].exists)
       /\ props = [k \in PropKeys |->
                     IF k = cfg[Main].threadIdProperty THEN cur ELSE NULL]
  /\ props0 = [p \in Procs |-> props]
  /\ InitCommon
  /\ subject = <<>>
  /\ replySubject = <<>>

\* ------------------------------------------------------ sendThreadedEmail
Key(p) == cfg[p].threadIdProperty

\* the provider rejects a dispatch to an empty recipient
Accepts(p) == cfg[p].recipientEmail # ""

Goto(p, label) == pc' = [pc EXCEPT ![p] = label]

Return(p, value) ==
  /\ result' = [result EXCEPT ![p] = value]
  /\ Goto(p, "done")

\* replyToExistingThread returned false: sendThreadedEmail goes on to
\* createNewThread
ReplyFailed(p, why) ==
  /\ loc' = [loc EXCEPT ![p].reply = why]
  /\ result' = result
  /\ Goto(p, "readOld")

\* createNewThread caught what the call raised and returned false, which
\* sendThreadedEmail returns
CreateFailed(p, call) ==
  /\ loc' = [loc EXCEPT ![p].raisedAt = call]
  /\ Return(p, "false")

\* SendStart as it would be if it fell back to the archived id when nothing
\* is stored under the key
SendStartFromArchive(p) ==
  /\ pc[p] = "idle"
  /\ props0' = [props0 EXCEPT ![p] = props]
  /\ sent' = [sent EXCEPT ![p] = <<>>]
  /\ lastOp' = "send"
  /\ info' = NoInfo
  /\ \E getProperty \in {"ok", "raise"} :
       LET stored == IF props[Key(p)] # NULL THEN props[Key(p)]
                     ELSE props[ArchivedKey(Key(p))]
       IN  IF getProperty = "raise"
           THEN /\ loc' = [loc EXCEPT ![p] = [NoLoc EXCEPT !.prevOp = lastOp,
                                                          !.raisedAt = "getProperty"]]
                /\ Return(p, "raised")
           ELSE /\ loc' = [loc EXCEPT ![p] =
                            [NoLoc EXCEPT !.prevOp = lastOp,
                                          !.storedThreadId = stored]]
                /\ result' = [result EXCEPT ![p] = "none"]
                /\ Goto(p, IF stored # NULL THEN "getThreadById" ELSE "readOld")
  /\ UNCHANGED <<props, mailbox, nextThread, cfg, subject, replySubject>>

\* sendThreadedEmail, entry: the stored id is read before the try block
SendStartWith(p, options) ==
  /\ pc[p] = "idle"
  /\ props0' = [props0 EXCEPT ![p] = props]
  /\ sent' = [sent EXCEPT ![p] = <<>>]
  /\ lastOp' = "send"
  /\ info' = NoInfo
  /\ \E getProperty \in {"ok", "raise"} :
       IF getProperty = "raise"
       THEN /\ loc' = [loc EXCEPT ![p] = [NoLoc EXCEPT !.prevOp = lastOp,
                                                      !.raisedAt = "getProperty"]]
            /\ Return(p, "raised")
       ELSE /\ loc' = [loc EXCEPT ![p] =
                        [NoLoc EXCEPT !.prevOp = lastOp,
                                      !.options = options,
                                      !.storedThreadId = props[Key(p)]]]
            /\ result' = [result EXCEPT ![p] = "none"]
            /\ Goto(p, IF props[Key(p)] # NULL THEN "getThreadById" ELSE "readOld")
  /\ UNCHANGED <<props, mailbox, nextThread, cfg, subject, replySubject>>

\* sendThreadedEmail(htmlBody): called without options
SendStart(p) == \E options \in {NoOptions} : SendStartWith(p, options)

\* AfterDirectLookup as it would be if the search were made whatever the
\* direct lookup handed back
AfterDirectLookupSearches(getThreadById) == "search"

\* getThread after method 1: the thread is returned when the direct lookup
\* handed one back; method 2 is tried when it handed back nothing or raised
AfterDirectLookup(getThreadById) ==
  IF getThreadById = "found" THEN "getMessages" ELSE "search"

\* GetThreadDirect as it would be without the try block around the direct
\* lookup: what getThreadById raises leaves getThread and is caught by
\* replyToExistingThread
GetThreadDirectUncaught(p) ==
  /\ pc[p] = "getThreadById"
  /\ \E getThreadById \in {"found", "null", "raise"} :
       CASE getThreadById = "found" ->
              /\ mailbox[loc[p].storedThreadId].exists
              /\ loc' = [loc EXCEPT ![p].thread = loc[p].storedThreadId,
                                    ![p].lookups = @ + 1]
              /\ Goto(p, "getMessages")
         [] getThreadById = "null" ->
              /\ loc' = [loc EXCEPT ![p].lookups = @ + 1]
              /\ Goto(p, "search")
         [] getThreadById = "raise" ->
              /\ loc' = [loc EXCEPT ![p].lookups = @ + 1,
                                    ![p].reply = "error"]
              /\ Goto(p, "readOld")
  /\ UNCHANGED <<props, mailbox, nextThread, cfg, result, sent, props0,
                 lastOp, info, subject, replySubject>>

\* getThread, method 1: GmailApp.getThreadById
GetThreadDirect(p) ==
  /\ pc[p] = "getThreadById"
  /\ \E getThreadById \in {"found", "null", "raise"} :
       IF getThreadById = "found"
       THEN /\ mailbox[loc[p].storedThreadId].exists
            /\ loc' = [loc EXCEPT ![p].thread = loc[p].storedThreadId,
                                  ![p].lookups = @ + 1]
            /\ Goto(p, AfterDirectLookup(getThreadById))
       ELSE /\ loc' = [loc EXCEPT ![p].lookups = @ + 1]
            /\ Goto(p, AfterDirectLookup(getThreadById))
  /\ UNCHANGED <<props, mailbox, nextThread, cfg, result, sent, props0,
                 lastOp, info, subject, replySubject>>

\* GetThreadSearch as it would be if the reply path deleted a stored id that
\* neither lookup resolves
GetThreadSearchForgetsMissing(p) ==
  /\ pc[p] = "search"
  /\ \E search \in {"found", "empty", "raise"} :
       IF search = "found"
       THEN /\ mailbox[loc[p].storedThreadId].exists
            /\ loc' = [loc EXCEPT ![p].thread = loc[p].storedThreadId,
                                  ![p].lookups = @ + 1]
            /\ Goto(p, "getMessages")
            /\ UNCHANGED props
       ELSE /\ loc' = [loc EXCEPT ![p].lookups = @ + 1,
                                  ![p].reply = "notFound"]
            /\ props' = [props EXCEPT ![Key(p)] = NULL]
            /\ Goto(p, "readOld")
  /\ UNCHANGED <<mailbox, nextThread, cfg, result, sent, props0,
                 lastOp, info, subject, replySubject>>

\* getThread, method 2: GmailApp.search('thread:' + threadId), first result
GetThreadSearch(p) ==
  /\ pc[p] = "search"
  /\ \E search \in {"found", "empty", "raise"} :
       IF search = "found"
       THEN /\ mailbox[loc[p].storedThreadId].exists
            /\ loc' = [loc EXCEPT ![p].thread = loc[p].storedThreadId,
                                  ![p].lookups = @ + 1]
            /\ Goto(p, "getMessages")
       ELSE /\ loc' = [loc EXCEPT ![p].lookups = @ + 1,
                                  ![p].reply = "notFound"]
            /\ Goto(p, "readOld")
  /\ UNCHANGED <<props, mailbox, nextThread, cfg, result, sent, props0,
                 lastOp, info, subject, replySubject>>

\* replyToExistingThread: thread.getMessages() and the subject read for the log
ReadThread(p) ==
  /\ pc[p] = "getMessages"
  /\ \E getMessages \in {"ok", "empty", "raise"} :
       IF getMessages = "raise"
       THEN ReplyFailed(p, "error")
       ELSE /\ loc' = [loc EXCEPT ![p].messages = getMessages,
                                  ![p].lastFrom = mailbox[loc[p].thread].lastFrom]
            /\ Goto(p, "extract")
            /\ UNCHANGED result
  /\ UNCHANGED <<props, mailbox, nextThread, cfg, sent, props0, lastOp, info,
                 subject, replySubject>>

\* replyToExistingThread: extractThreadingHeaders(messages[0]), then
\* extractMessageIdAlternative(messages[0]) when no Message-ID was found
ExtractHeaders(p) ==
  /\ pc[p] = "extract"
  /\ \E getRawContent_ \in {"ok", "raise"}, getId \in {"ok", "empty", "raise"} :
       LET first  == FirstMessage(Messages(mailbox[loc[p].thread]))
           have   == loc[p].messages = "ok"
           parsed == extractThreadingHeaders(first.headers,
                                             have /\ getRawContent_ = "ok")
           alt    == extractMessageIdAlternative(first.pid, have /\ getId = "ok")
           tinfo  == IF parsed.messageId # <<>> THEN parsed
                     ELSE [parsed EXCEPT !.messageId = alt]
       IN  IF tinfo.messageId = <<>>
           THEN ReplyFailed(p, "noMessageId")
           ELSE /\ loc' = [loc EXCEPT ![p].threadingInfo = tinfo,
                                      ![p].raw = IF have THEN getRawContent_
                                                 ELSE "none"]
                /\ Goto(p, "sendReply")
                /\ UNCHANGED result
  /\ UNCHANGED <<props, mailbox, nextThread, cfg, sent, props0, lastOp, info,
                 subject, replySubject>>

\* ReplyMessage as the native reply() of the earlier versions addressed it:
\* to whoever wrote the last message of the conversation
ReplyMessageToLastSender(p) ==
  [kind       |-> "reply",
   to         |-> IF loc[p].lastFrom = Me THEN cfg[p].recipientEmail
                  ELSE loc[p].lastFrom,
   subject    |-> formatReplySubject(mailbox[loc[p].thread].subject),
   inReplyTo  |-> Bracket(loc[p].threadingInfo.messageId),
   references |-> buildReferencesHeader(loc[p].threadingInfo),
   conv       |-> loc[p].thread]

\* the message GmailApp.sendEmail is called with on the reply path; the
\* headers object is written after the caller's options and replaces theirs
ReplyMessage(p) ==
  [kind       |-> "reply",
   to         |-> cfg[p].recipientEmail,
   subject    |-> formatReplySubject(mailbox[loc[p].thread].subject),
   inReplyTo  |-> Bracket(loc[p].threadingInfo.messageId),
   references |-> buildReferencesHeader(loc[p].threadingInfo),
   conv       |-> loc[p].thread]

\* SendReply as it would be without the return after a successful dispatch:
\* control falls through to createNewThread
SendReplyFallsThrough(p) ==
  /\ pc[p] = "sendReply"
  /\ \E sendEmail \in {"ok", "subjectRaise", "raise"} :
       IF sendEmail = "ok"
       THEN /\ Accepts(p)
            /\ sent' = [sent EXCEPT ![p] = Append(@, ReplyMessage(p))]
            /\ mailbox' = [mailbox EXCEPT ![loc[p].thread].lastFrom = Me]
            /\ loc' = [loc EXCEPT ![p].reply = "sent",
                                  ![p].asked = Append(@, "reply")]
            /\ result' = result
            /\ Goto(p, "readOld")
       ELSE /\ loc' = [loc EXCEPT ![p].reply = "error",
                                  ![p].asked = IF sendEmail = "raise"
                                               THEN Append(@, "reply") ELSE @]
            /\ result' = result
            /\ Goto(p, "readOld")
            /\ UNCHANGED <<sent, mailbox>>
  /\ UNCHANGED <<props, nextThread, cfg, props0, lastOp, info, subject,
                 replySubject>>

\* replyToExistingThread: build the headers and GmailApp.sendEmail; the
\* subject is read from the provider while the arguments are evaluated, so a
\* raise there ("subjectRaise") comes before the provider is asked to send
SendReply(p) ==
  /\ pc[p] = "sendReply"
  /\ \E sendEmail \in {"ok", "subjectRaise", "raise"} :
       IF sendEmail = "ok"
       THEN /\ Accepts(p)
            /\ sent' = [sent EXCEPT ![p] = Append(@, ReplyMessage(p))]
            /\ mailbox' = [mailbox EXCEPT ![loc[p].thread].lastFrom = Me]
            /\ loc' = [loc EXCEPT ![p].reply = "sent",
                                  ![p].asked = Append(@, "reply")]
            /\ Return(p, "true")
       ELSE /\ loc' = [loc EXCEPT ![p].reply = "error",
                                  ![p].asked = IF sendEmail = "raise"
                                               THEN Append(@, "reply") ELSE @]
            /\ result' = result
            /\ Goto(p, "readOld")
            /\ UNCHANGED <<sent, mailbox>>
  /\ UNCHANGED <<props, nextThread, cfg, props0, lastOp, info, subject,
                 replySubject>>

\* ---------------------------------------------------------- createNewThread
\* CreateReadOld as it would be if it took the old id from the 'previous'
\* breadcrumb whenever one is there
CreateReadOldFromPrevious(p) ==
  /\ pc[p] = "readOld"
  /\ \E getProperty \in {"ok", "raise"} :
       LET old == IF props[PreviousKey(Key(p))] # NULL
                  THEN props[PreviousKey(Key(p))] ELSE props[Key(p)]
       IN  IF getProperty = "raise"
           THEN CreateFailed(p, "getProperty")
           ELSE /\ loc' = [loc EXCEPT ![p].oldThreadId = old]
                /\ Goto(p, IF old # NULL THEN "archiveOld" ELSE "createDraft")
                /\ UNCHANGED result
  /\ UNCHANGED <<props, mailbox, nextThread, cfg, sent, props0, lastOp, info,
                 subject, replySubject>>

\* createNewThread: read the stored id again
CreateReadOld(p) ==
  /\ pc[p] = "readOld"
  /\ \E getProperty \in {"ok", "raise"} :
       IF getProperty = "raise"
       THEN CreateFailed(p, "getProperty")
       ELSE /\ loc' = [loc EXCEPT ![p].oldThreadId = props[Key(p)]]
            /\ Goto(p, IF props[Key(p)] # NULL THEN "archiveOld" ELSE "createDraft")
            /\ UNCHANGED result
  /\ UNCHANGED <<props, mailbox, nextThread, cfg, sent, props0, lastOp, info,
                 subject, replySubject>>

\* CreateArchiveOld as it would be if it kept the first breadcrumb and wrote
\* the 'previous' key only while that key is empty
CreateArchiveOldKeepsFirst(p) ==
  /\ pc[p] = "archiveOld"
  /\ \E setProperty \in {"ok", "raise"} :
       IF setProperty = "raise"
       THEN CreateFailed(p, "setPrevious") /\ UNCHANGED props
       ELSE /\ props' = IF props[PreviousKey(Key(p))] = NULL
                        THEN [props EXCEPT ![PreviousKey(Key(p))] = loc[p].oldThreadId]
                        ELSE props
            /\ Goto(p, "createDraft")
            /\ UNCHANGED <<result, loc>>
  /\ UNCHANGED <<mailbox, nextThread, cfg, sent, props0, lastOp, info,
                 subject, replySubject>>

\* createNewThread: keep the old id under the 'previous' key
CreateArchiveOld(p) ==
  /\ pc[p] = "archiveOld"
  /\ \E setProperty \in {"ok", "raise"} :
       IF setProperty = "raise"
       THEN CreateFailed(p, "setPrevious") /\ UNCHANGED props
       ELSE /\ props' = [props EXCEPT ![PreviousKey(Key(p))] = loc[p].oldThreadId]
            /\ Goto(p, "createDraft")
            /\ UNCHANGED <<result, loc>>
  /\ UNCHANGED <<mailbox, nextThread, cfg, sent, props0, lastOp, info,
                 subject, replySubject>>

\* the message GmailApp.createDraft is called with: the options of the caller
\* go into the draft as they are, headers included
NewMessage(p) ==
  [kind       |-> "new",
   to         |-> cfg[p].recipientEmail,
   subject    |-> cfg[p].emailSubject,
   inReplyTo  |-> OptionHeader(loc[p].options, "inReplyTo"),
   references |-> OptionHeader(loc[p].options, "references"),
   conv       |-> ThreadNames[nextThread]]

\* CreateDraftSend as it would be if a dispatch that raised were tried once
\* more
CreateDraftSendRetries(p) ==
  /\ pc[p] = "createDraft"
  /\ \E createDraft \in {"ok", "draftRaise", "sendRaise", "idRaise"} :
       IF createDraft \in {"draftRaise", "sendRaise"}
       THEN /\ loc' = [loc EXCEPT ![p].raisedAt = createDraft,
                                  ![p].asked = Append(@, "new")]
            /\ IF \E i \in DOMAIN loc[p].asked : loc[p].asked[i] = "new"
               THEN Return(p, "false")
               ELSE UNCHANGED <<pc, result>>
            /\ UNCHANGED <<mailbox, nextThread, sent>>
       ELSE /\ Accepts(p)
            /\ nextThread <= MaxThreads
            /\ \E h \in SentHeaderBlocks(MsgIdNames[nextThread]) :
                 mailbox' = [mailbox EXCEPT ![ThreadNames[nextThread]] =
                               Thread(h, PidNames[nextThread],
                                      cfg[p].emailSubject, Me)]
            /\ nextThread' = nextThread + 1
            /\ sent' = [sent EXCEPT ![p] = Append(@, NewMessage(p))]
            /\ IF createDraft = "idRaise"
               THEN /\ loc' = [loc EXCEPT ![p].raisedAt = "idRaise",
                                          ![p].asked = Append(@, "new")]
                    /\ Return(p, "false")
               ELSE /\ loc' = [loc EXCEPT ![p].newThreadId = ThreadNames[nextThread],
                                          ![p].asked = Append(@, "new")]
                    /\ Goto(p, "storeNew")
                    /\ UNCHANGED result
  /\ UNCHANGED <<props, cfg, props0, lastOp, info, subject, replySubject>>

\* createNewThread: GmailApp.createDraft, draft.send(), then
\* sentMessage.getThread().getId()
CreateDraftSend(p) ==
  /\ pc[p] = "createDraft"
  /\ \E createDraft \in {"ok", "draftRaise", "sendRaise", "idRaise"} :
       IF createDraft \in {"draftRaise", "sendRaise"}
       THEN /\ loc' = [loc EXCEPT ![p].raisedAt = createDraft,
                                  ![p].asked = Append(@, "new")]
            /\ Return(p, "false")
            /\ UNCHANGED <<mailbox, nextThread, sent>>
       ELSE /\ Accepts(p)
            /\ nextThread <= MaxThreads
            /\ \E h \in SentHeaderBlocks(MsgIdNames[nextThread]) :
                 mailbox' = [mailbox EXCEPT ![ThreadNames[nextThread]] =
                               Thread(h, PidNames[nextThread],
                                      cfg[p].emailSubject, Me)]
            /\ nextThread' = nextThread + 1
            /\ sent' = [sent EXCEPT ![p] = Append(@, NewMessage(p))]
            /\ IF createDraft = "idRaise"
               THEN /\ loc' = [loc EXCEPT ![p].raisedAt = "idRaise",
                                          ![p].asked = Append(@, "new")]
                    /\ Return(p, "false")
               ELSE /\ loc' = [loc EXCEPT ![p].newThreadId = ThreadNames[nextThread],
                                          ![p].asked = Append(@, "new")]
                    /\ Goto(p, "storeNew")
                    /\ UNCHANGED result
  /\ UNCHANGED <<props, cfg, props0, lastOp, info, subject, replySubject>>

\* StoreNewId as it would be if it kept the value it overwrites under the
\* 'previous' key
StoreNewIdKeepingOverwritten(store, key, id) ==
  [store EXCEPT ![key] = id, ![PreviousKey(key)] = store[key]]

\* this.properties.setProperty(this.config.threadIdProperty, newThreadId): the
\* store puts the value under the key whatever the key holds
StoreNewId(store, key, id) == [store EXCEPT ![key] = id]

\* CreateStoreNew as it would be if it kept an id that is already stored
CreateStoreNewIfAbsent(p) ==
  /\ pc[p] = "storeNew"
  /\ \E setProperty \in {"ok", "raise"} :
       IF setProperty = "raise"
       THEN CreateFailed(p, "setProperty") /\ UNCHANGED props
       ELSE /\ props' = IF props[Key(p)] = NULL
                        THEN [props EXCEPT ![Key(p)] = loc[p].newThreadId]
                        ELSE props
            /\ Goto(p, "logSubject")
            /\ UNCHANGED <<result, loc>>
  /\ UNCHANGED <<mailbox, nextThread, cfg, sent, props0, lastOp, info,
                 subject, replySubject>>

\* createNewThread: store the new thread id
CreateStoreNew(p) ==
  /\ pc[p] = "storeNew"
  /\ \E setProperty \in {"ok", "raise"} :
       IF setProperty = "raise"
       THEN CreateFailed(p, "setProperty") /\ UNCHANGED props
       ELSE /\ props' = StoreNewId(props, Key(p), loc[p].newThreadId)
            /\ Goto(p, "logSubject")
            /\ UNCHANGED <<result, loc>>
  /\ UNCHANGED <<mailbox, nextThread, cfg, sent, props0, lastOp, info,
                 subject, replySubject>>

\* CreateLogSubject as it would be if a raise in the log line took the new
\* id out of the store again
CreateLogSubjectClearsKey(p) ==
  /\ pc[p] = "logSubject"
  /\ \E getFirstMessageSubject \in {"ok", "raise"} :
       IF getFirstMessageSubject = "ok"
       THEN Return(p, "true") /\ UNCHANGED <<loc, props>>
       ELSE /\ CreateFailed(p, "getFirstMessageSubject")
            /\ props' = [props EXCEPT ![Key(p)] = NULL]
  /\ UNCHANGED <<mailbox, nextThread, cfg, sent, props0, lastOp, info,
                 subject, replySubject>>

\* createNewThread: the log line that reads newThread.getFirstMessageSubject(),
\* then return true
CreateLogSubject(p) ==
  /\ pc[p] = "logSubject"
  /\ \E getFirstMessageSubject \in {"ok", "raise"} :
       IF getFirstMessageSubject = "ok"
       THEN Return(p, "true") /\ UNCHANGED loc
       ELSE CreateFailed(p, "getFirstMessageSubject")
  /\ UNCHANGED <<props, mailbox, nextThread, cfg, sent, props0, lastOp, info,
                 subject, replySubject>>

\* sendThreadedEmail has returned (or raised) to its caller
Finish(p) ==
  /\ pc[p] = "done"
  /\ Goto(p, "idle")
  /\ loc' = [loc EXCEPT ![p] = NoLoc]
  /\ result' = [result EXCEPT ![p] = "none"]
  /\ sent' = [sent EXCEPT ![p] = <<>>]
  /\ props0' = [props0 EXCEPT ![p] = props]
  /\ mailbox' = Forget(mailbox, props, p)
  /\ UNCHANGED <<props, nextThread, cfg, lastOp, info, subject, replySubject>>

sendThreadedEmail(p) ==
  \/ SendStart(p)
  \/ GetThreadDirect(p)
  \/ GetThreadSearch(p)
  \/ ReadThread(p)
  \/ ExtractHeaders(p)
  \/ SendReply(p)
  \/ CreateReadOld(p)
  \/ CreateArchiveOld(p)
  \/ CreateDraftSend(p)
  \/ CreateStoreNew(p)
  \/ CreateLogSubject(p)
  \/ Finish(p)

\* ----------------------------------------------------------- resetThreading
\* ArchiveOldThreadId as it would be if it kept the old id under the
\* 'previous' key that createNewThread uses
ArchiveOldThreadIdAsPrevious(store, key, old, now, raiseAt) ==
  LET archived == IF raiseAt \in {"setDate", "deleteProperty", "none"}
                  THEN [store EXCEPT ![PreviousKey(key)] = old]
                  ELSE store
  IN  IF raiseAt \in {"deleteProperty", "none"}
      THEN [archived EXCEPT ![ArchivedDateKey(key)] = now]
      ELSE archived

\* resetThreading, the two writes made when an id is stored: the old id under
\* the 'archived_' key, then the time under the 'archived_date_' key; the
\* store as they leave it when the call named by raiseAt raises
ArchiveOldThreadId(store, key, old, now, raiseAt) ==
  LET archived == IF raiseAt \in {"setDate", "deleteProperty", "none"}
                  THEN [store EXCEPT ![ArchivedKey(key)] = old]
                  ELSE store
  IN  IF raiseAt \in {"deleteProperty", "none"}
      THEN [archived EXCEPT ![ArchivedDateKey(key)] = now]
      ELSE archived

\* resetThreading as it would be without the test of the old id: the archive
\* writes are made whether or not an id is stored
resetThreadingArchivesAlways(p) ==
  /\ Idle
  /\ info' = NoInfo
  /\ \E raiseAt \in {"getProperty", "setArchived", "setDate", "deleteProperty",
                     "none"},
        now \in Timestamps :
       LET old  == props[Key(p)]
           kept == ArchiveOldThreadId(props, Key(p), old, now, raiseAt)
       IN  /\ props' = IF raiseAt = "none"
                       THEN [kept EXCEPT ![Key(p)] = NULL]
                       ELSE kept
           /\ lastOp' = IF raiseAt = "none" THEN "reset" ELSE "resetRaised"
  /\ props0' = [props0 EXCEPT ![p] = props]
  /\ mailbox' = Forget(mailbox, props', p)
  /\ UNCHANGED <<nextThread, cfg, pc, loc, result, sent, subject, replySubject>>

\* the store calls of resetThreading in order; none is inside a try block, so
\* the first one that raises ends the call there
resetThreading(p) ==
  /\ Idle
  /\ info' = NoInfo
  /\ \E raiseAt \in {"getProperty", "setArchived", "setDate", "deleteProperty",
                     "none"},
        now \in Timestamps :
       LET old  == props[Key(p)]
           kept == IF old # NULL
                   THEN ArchiveOldThreadId(props, Key(p), old, now, raiseAt)
                   ELSE props
       IN  /\ (old = NULL => raiseAt \notin {"setArchived", "setDate"})
           /\ props' = IF raiseAt = "none"
                       THEN [kept EXCEPT ![Key(p)] = NULL]
                       ELSE kept
           /\ lastOp' = IF raiseAt = "none" THEN "reset" ELSE "resetRaised"
  /\ props0' = [props0 EXCEPT ![p] = props]
  /\ mailbox' = Forget(mailbox, props', p)
  /\ UNCHANGED <<nextThread, cfg, pc, loc, result, sent, subject, replySubject>>

\* ------------------------------------------------------------ getThreadInfo
OrNull(v) == IF v # NULL THEN v ELSE NULL

\* how the inspection of the stored conversation goes: all of it succeeds;
\* getThread returns null; what it returned cannot be used (getMessages or
\* getFirstMessageSubject raises); the message list is empty, so that
\* messages[0].getDate() raises; getDate or getLabels raises
InspectOutcomes == {"details", "notFound", "unusable", "empty", "access"}

\* ThreadDetails as it would be if the catch left threadDetails as it was
ThreadDetailsErrorDropped(inspect) ==
  IF inspect = "details" THEN "details" ELSE "null"

\* info.threadDetails after the try block of getThreadInfo: the details, null
\* when no thread was found, the error record when anything raised
ThreadDetails(inspect) ==
  CASE inspect = "details"  -> "details"
    [] inspect = "notFound" -> "null"
    [] OTHER                -> "error"

\* what the caller of getThreadInfo is left with when a property read raised
InfoRaised == [returned |-> FALSE, raised |-> "getProperty"]

\* getThreadInfo as it would be if it cleared a stored id whose conversation
\* it cannot find
getThreadInfoForgetsMissing(p) ==
  /\ Idle
  /\ \E getProperty \in {"ok", "raise"},
        inspect \in InspectOutcomes :
       IF getProperty = "raise"
       THEN info' = InfoRaised /\ UNCHANGED props
       ELSE /\ (inspect = "details" =>
                  props[Key(p)] # NULL /\ mailbox[props[Key(p)]].exists)
            /\ info' = [returned         |-> TRUE,
                        currentThreadId  |-> OrNull(props[Key(p)]),
                        previousThreadId |-> OrNull(props[PreviousKey(Key(p))]),
                        archivedThreadId |-> OrNull(props[ArchivedKey(Key(p))]),
                        inspected        |->
                          IF props[Key(p)] = NULL THEN "none" ELSE inspect,
                        threadDetails    |->
                          IF props[Key(p)] = NULL THEN "null"
                          ELSE ThreadDetails(inspect)]
            /\ props' = IF inspect = "notFound"
                        THEN [props EXCEPT ![Key(p)] = NULL]
                        ELSE props
  /\ UNCHANGED <<mailbox, nextThread, cfg, pc, loc, result, sent,
                 props0, lastOp, subject, replySubject>>

\* getThreadInfo: three property reads, then the inspection of the thread
\* inside a try block
getThreadInfo(p) ==
  /\ Idle
  /\ \E getProperty \in {"ok", "raise"},
        inspect \in InspectOutcomes :
       IF getProperty = "raise"
       THEN info' = InfoRaised
       ELSE /\ (inspect = "details" =>
                  props[Key(p)] # NULL /\ mailbox[props[Key(p)]].exists)
            /\ info' = [returned         |-> TRUE,
                        currentThreadId  |-> OrNull(props[Key(p)]),
                        previousThreadId |-> OrNull(props[PreviousKey(Key(p))]),
                        archivedThreadId |-> OrNull(props[ArchivedKey(Key(p))]),
                        inspected        |->
                          IF props[Key(p)] = NULL THEN "none" ELSE inspect,
                        threadDetails    |->
                          IF props[Key(p)] = NULL THEN "null"
                          ELSE ThreadDetails(inspect)]
  /\ UNCHANGED <<props, mailbox, nextThread, cfg, pc, loc, result, sent,
                 props0, lastOp, subject, replySubject>>

\* -------------------------------------------------------------- environment
\* the conversations the library can still look up: those whose id is the
\* current id of a stream; what happens to the others is never observed
Stored(t) == \E k \in ThreadIdProperties : props[k] = t

\* a group member replies in a conversation
ExternalReply(t) ==
  /\ Idle
  /\ Stored(t)
  /\ mailbox[t].exists
  /\ mailbox[t].lastFrom # External
  /\ mailbox' = [mailbox EXCEPT ![t].lastFrom = External]
  /\ UNCHANGED <<props, nextThread, cfg, pc, loc, result, sent, props0,
                 lastOp, info, subject, replySubject>>

\* the user deletes a conversation
DeleteThread(t) ==
  /\ Idle
  /\ Stored(t)
  /\ mailbox[t].exists
  /\ mailbox' = [mailbox EXCEPT ![t] = NoThread]
  /\ UNCHANGED <<props, nextThread, cfg, pc, loc, result, sent, props0,
                 lastOp, info, subject, replySubject>>

\* one manager, one invocation at a time
Next ==
  \/ sendThreadedEmail(Main)
  \/ resetThreading(Main)
  \/ getThreadInfo(Main)
  \/ \E t \in ThreadIds : ExternalReply(t)
  \/ \E t \in ThreadIds : DeleteThread(t)

Spec == Init /\ [][Next]_vars

\* ------------------------------------------------------ overlapping triggers
\* a first deployment: nothing stored, an empty mailbox, and two triggers of
\* the same script (one configuration, one persistence key) that may overlap
InitConc ==
  /\ cfg = [p \in Procs |->
              EmailThreadingManager(
                CallerConfig(<<>>, "group@googlegroups.com", <<"H">>))]
  /\ mailbox = [i \in ThreadIds |-> NoThread]
  /\ props = [k \in PropKeys |-> NULL]
  /\ props0 = [p \in Procs |-> props]
  /\ nextThread = MaxThreads - 1
  /\ pc = [p \in Procs |-> "idle"]
  /\ loc = [p \in Procs |-> NoLoc]
  /\ result = [p \in Procs |-> "none"]
  /\ sent = [p \in Procs |-> <<>>]
  /\ lastOp = "none"
  /\ info = NoInfo
  /\ subject = <<>>
  /\ replySubject = <<>>

\* a trigger calls sendThreadedEmail; triggers fire while the provider has
\* ids left to hand out
TriggerFires(p) ==
  /\ nextThread <= MaxThreads
  /\ SendStart(p)

\* the steps of the two invocations interleave in any order: nothing in
\* sendThreadedEmail takes a lock
NextConc ==
  \E p \in Procs :
    \/ TriggerFires(p)
    \/ GetThreadDirect(p)
    \/ GetThreadSearch(p)
    \/ ReadThread(p)
    \/ ExtractHeaders(p)
    \/ SendReply(p)
    \/ CreateReadOld(p)
    \/ CreateArchiveOld(p)
    \/ CreateDraftSend(p)
    \/ CreateStoreNew(p)
    \/ CreateLogSubject(p)
    \/ Finish(p)

SpecConc == InitConc /\ [][NextConc]_vars

\* ---------------------------------------------------------- functional API
\* The functions sendThreadedEmail(htmlBody, config), replyToExistingThread,
\* createNewThread and findThreadById of EmailThreadingExample.js: the same
\* decision procedure with the provider's native reply, taking a recipient
\* that is one string or a list of strings.

\* a JavaScript value that is a string (a text, as a sequence of tokens) or an
\* array of strings
StringValue(text) == [isArray |-> FALSE, text |-> text, items |-> <<>>]
ArrayValue(items) == [isArray |-> TRUE, text |-> <<>>, items |-> items]

\* Array.prototype.join
RECURSIVE Join(_, _)
Join(items, sep) ==
  CASE items = <<>>    -> <<>>
    [] Len(items) = 1  -> items[1]
    [] OTHER           -> items[1] \o sep \o Join(Tail(items), sep)

\* the address tokens of which word is a substring
Containing(word) ==
  CASE word = "group"             -> {"team@googlegroups.com", "group-leads@example.com"}
    [] word = "@googlegroups.com" -> {"team@googlegroups.com"}

\* String.prototype.includes
Includes(text, word) == \E i \in DOMAIN text : text[i] \in Containing(word)

\* Array.isArray(config.recipientEmail) ? config.recipientEmail.join(', ')
\*                                      : config.recipientEmail
RecipientString(value) ==
  IF value.isArray THEN Join(value.items, <<",", " ">>) ELSE value.text

LastKey(k) == <<"last_">> \o k

FnPropKeys == PropKeys \cup {LastKey(k) : k \in ThreadIdProperties}

\* the recipients callers configure: a group address, one person, two people
\* in one string, and lists of one and of two people
FnRecipients ==
  {StringValue(<<"team@googlegroups.com">>),
   StringValue(<<"group-leads@example.com">>),
   StringValue(<<"support@example.com">>),
   StringValue(<<"support@example.com", ",", " ", "test@example.com">>),
   ArrayValue(<< <<"support@example.com">> >>),
   ArrayValue(<< <<"support@example.com">>, <<"test@example.com">> >>)}

createThreadingConfig(params) ==
  [threadIdProperty |-> params.threadIdProperty,
   emailSubject     |-> params.emailSubject,
   recipientEmail   |-> params.recipientEmail,
   scriptVersion    |-> IF params.scriptVersion # NULL THEN params.scriptVersion
                        ELSE "Unknown"]

InitFn ==
  /\ \E r \in FnRecipients :
       cfg = [p \in Procs |->
                createThreadingConfig([threadIdProperty |-> <<"weeklyThreadId">>,
                                       emailSubject     |-> <<"H">>,
                                       recipientEmail   |-> r,
                                       scriptVersion    |-> NULL])]
  /\ \E t \in {NoThread, Thread(<<SubjectHdr>>, PidNames[1], <<"H">>, Me)} :
       mailbox = [i \in ThreadIds |-> IF i = ThreadNames[1] THEN t ELSE NoThread]
  /\ \E cur \in {NULL, ThreadNames[1]} :
       /\ (cur = NULL => ~mailbox[ThreadNames[1]].exists)
       /\ props = [k \in FnPropKeys |->
                     IF k = cfg[Main].threadIdProperty THEN cur ELSE NULL]
  /\ props0 = [p \in Procs |-> props]
  /\ InitCommon
  /\ subject = <<>>
  /\ replySubject = <<>>

\* where the provider's native reply to the last message of conversation t
\* goes when no destination is given: to its author, or, when the script
\* itself wrote it, to those it was sent to
NativeReplyTo(p, t) ==
  IF mailbox[t].lastFrom = Me
  THEN RecipientString(cfg[p].recipientEmail)
  ELSE <<mailbox[t].lastFrom>>

\* replyToExistingThread: replyOptions.to is set only for a recipient that
\* looks like a group or was given as a list
FnReplyMessage(p, t) ==
  LET recipientEmail == RecipientString(cfg[p].recipientEmail)
      forced == \/ Includes(recipientEmail, "group")
                \/ Includes(recipientEmail, "@googlegroups.com")
                \/ cfg[p].recipientEmail.isArray
  IN  [kind   |-> "reply",
       to     |-> IF forced THEN recipientEmail ELSE NativeReplyTo(p, t),
       forced |-> forced,
       conv   |-> t]

\* createNewThread: GmailApp.createDraft(recipientEmail, config.emailSubject, ...)
FnNewMessage(p) ==
  [kind   |-> "new",
   to     |-> RecipientString(cfg[p].recipientEmail),
   forced |-> TRUE,
   conv   |-> ThreadNames[nextThread]]

\* sendThreadedEmail(htmlBody, config), the whole call: the stored id is read
\* outside the try block; replyToExistingThread and createNewThread catch
\* what their calls raise and return false
FnSendThreadedEmail(p) ==
  /\ Idle
  /\ lastOp' = "send"
  /\ info' = NoInfo
  /\ props0' = [props0 EXCEPT ![p] = props]
  /\ \E getProperty \in {"ok", "raise"}, findThreadById \in {"found", "null"},
        reply \in {"ok", "raise"},
        createNewThread \in {"ok", "raise", "setPropertyRaise"} :
       LET stored  == props[Key(p)]
           found   == stored # NULL /\ findThreadById = "found"
           replied == found /\ reply = "ok"
           kept    == IF stored # NULL
                      THEN [props EXCEPT ![LastKey(Key(p))] = stored]
                      ELSE props
           created == [mailbox EXCEPT ![ThreadNames[nextThread]] =
                         Thread(<<SubjectHdr>>, PidNames[nextThread],
                                cfg[p].emailSubject, Me)]
       IN  /\ (findThreadById = "found" => stored # NULL /\ mailbox[stored].exists)
           /\ loc' = [loc EXCEPT ![p] =
                        [NoLoc EXCEPT !.storedThreadId = stored,
                                      !.lastFrom = IF found THEN mailbox[stored].lastFrom
                                                   ELSE NULL]]
           /\ CASE getProperty = "raise" ->
                    /\ result' = [result EXCEPT ![p] = "raised"]
                    /\ sent' = [sent EXCEPT ![p] = <<>>]
                    /\ UNCHANGED <<props, mailbox, nextThread>>
                [] getProperty = "ok" /\ replied ->
                    /\ result' = [result EXCEPT ![p] = "true"]
                    /\ sent' = [sent EXCEPT ![p] = <<FnReplyMessage(p, stored)>>]
                    /\ mailbox' = [mailbox EXCEPT ![stored].lastFrom = Me]
                    /\ UNCHANGED <<props, nextThread>>
                [] getProperty = "ok" /\ ~replied /\ createNewThread = "raise" ->
                    /\ result' = [result EXCEPT ![p] = "false"]
                    /\ sent' = [sent EXCEPT ![p] = <<>>]
                    /\ \E written \in {props, kept} : props' = written
                    /\ UNCHANGED <<mailbox, nextThread>>
                [] getProperty = "ok" /\ ~replied /\ createNewThread # "raise" ->
                    /\ nextThread <= MaxThreads
                    /\ sent' = [sent EXCEPT ![p] = <<FnNewMessage(p)>>]
                    /\ mailbox' = created
                    /\ nextThread' = nextThread + 1
                    /\ IF createNewThread = "ok"
                       THEN /\ props' = [kept EXCEPT ![Key(p)] = ThreadNames[nextThread]]
                            /\ result' = [result EXCEPT ![p] = "true"]
                       ELSE /\ props' = kept
                            /\ result' = [result EXCEPT ![p] = "false"]
  /\ UNCHANGED <<cfg, pc, subject, replySubject>>

NextFn ==
  \/ FnSendThreadedEmail(Main)
  \/ \E t \in ThreadIds : ExternalReply(t)
  \/ \E t \in ThreadIds : DeleteThread(t)

SpecFn == InitFn /\ [][NextFn]_vars

\* --------------------------------------------------------- subject machine
\* formatReplySubject applied to every short subject, with the "Re:" prefixes
\* that correspondents' mail clients stack in front of it
SubjectChars == {"R", "e", "E", ":", " ", "H"}

ClientPrefixes ==
  {<<"R", "e", ":", " ">>, <<"R", "E", ":">>, <<"r", "e", ":", " ", " ">>}

BoundedSeq(S, n) == UNION {[1..k -> S] : k \in 0..n}

InitSubject ==
  /\ cfg = [p \in Procs |->
              EmailThreadingManager(CallerConfig(<<>>, "group@googlegroups.com", <<"H">>))]
  /\ props = [k \in PropKeys |-> NULL]
  /\ mailbox = [i \in ThreadIds |-> NoThread]
  /\ props0 = [p \in Procs |-> props]
  /\ InitCommon
  /\ subject \in BoundedSeq(SubjectChars, MaxSubjectLen)
  /\ replySubject = <<>>

\* a correspondent's client puts one more "Re:" in front of the subject
PrefixRe(pre) ==
  /\ replySubject = <<>>
  /\ Len(subject) + Len(pre) <= MaxSubjectLen + MaxStacked
  /\ subject' = pre \o subject
  /\ UNCHANGED <<props, mailbox, nextThread, cfg, pc, loc, result, sent,
                 props0, lastOp, info, replySubject>>

\* the library computes the reply subject
FormatSubject ==
  /\ replySubject = <<>>
  /\ replySubject' = formatReplySubject(subject)
  /\ UNCHANGED <<props, mailbox, nextThread, cfg, pc, loc, result, sent,
                 props0, lastOp, info, subject>>

NextSubject ==
  \/ \E pre \in ClientPrefixes : PrefixRe(pre)
  \/ FormatSubject

SpecSubject == InitSubject /\ [][NextSubject]_vars

\* ================================================================ properties
Blank == {" ", "\t", "\r", "\n"}

\* s begins with "Re:" in any letter case
StartsWithRe(s) ==
  /\ Len(s) >= 3
  /\ s[1] \in {"R", "r"}
  /\ s[2] \in {"E", "e"}
  /\ s[3] = ":"

\* s is a run of zero or more "Re:" in any letter case, each followed by any
\* number of blanks
RECURSIVE IsReRun(_)
IsReRun(s) ==
  \/ s = <<>>
  \/ /\ StartsWithRe(s)
     /\ \E j \in 3..Len(s) :
          /\ \A i \in 4..j : s[i] \in Blank
          /\ IsReRun(SubSeq(s, j + 1, Len(s)))

Hello == <<"H">>

\* C10: formatReplySubject strips every leading repetition of "Re:" (any
\* letter case, with or without blanks after it) and puts exactly one "Re: "
\* in front: the result is "Re: " followed by the part of the subject that is
\* left after a leading run of "Re:"s, and that part begins neither with
\* "Re:" nor, when something was stripped, with a blank.  "Re: Re: Hello",
\* "RE:Hello" and "Hello" all give "Re: Hello".
C10_FormatReplySubject ==
  replySubject # <<>> =>
    /\ \E k \in 0..Len(subject) :
         LET rest == SubSeq(subject, k + 1, Len(subject))
         IN  /\ IsReRun(SubSeq(subject, 1, k))
             /\ ~StartsWithRe(rest)
             /\ (k > 0 /\ rest # <<>> => rest[1] \notin Blank)
             /\ replySubject = <<"R", "e", ":", " ">> \o rest
    /\ (subject \in {<<"R", "e", ":", " ", "R", "e", ":", " ">> \o Hello,
                     <<"R", "E", ":">> \o Hello,
                     Hello}
          => replySubject = <<"R", "e", ":", " ">> \o Hello)

C10_Witness ==
  /\ subject = <<"R", "e", ":", " ", "R", "E", ":">> \o Hello
  /\ replySubject = <<"R", "e", ":", " ">> \o Hello

\* ------------------------------------------------------ repeated replies
\* the reply subject is handed to formatReplySubject again, as when a reply
\* is made to a reply
ReplyAgain ==
  /\ replySubject # <<>>
  /\ Len(replySubject) <= MaxSubjectLen + MaxStacked + Len(RePrefix)
  /\ replySubject' = formatReplySubject(replySubject)
  /\ UNCHANGED <<props, mailbox, nextThread, cfg, pc, loc, result, sent,
                 props0, lastOp, info, subject>>

NextReplies ==
  \/ \E pre \in ClientPrefixes : PrefixRe(pre)
  \/ FormatSubject
  \/ ReplyAgain

SpecReplies == InitSubject /\ [][NextReplies]_vars

\* ------------------------------------------------------- working provider
\* From here on the mail provider works: it accepts every dispatch, and every
\* conversation that is in the mailbox is found by getThread (by the direct
\* lookup or by the search), hands out its messages and its subject, and has
\* a first message with a Message-ID header or a provider id; the id of a
\* conversation just created can be read.  Conversations are not deleted any
\* more.  The script's properties are a different service: its reads and
\* writes may still raise.
ProviderWorks(p) ==
  /\ \/ loc'[p].reply \in {"none", "sent"}
     \/ /\ loc'[p].reply = "notFound"
        /\ ~mailbox[loc[p].storedThreadId].exists
  /\ loc'[p].messages \in {"none", "ok"}
  /\ loc'[p].raisedAt \notin {"draftRaise", "sendRaise", "idRaise"}

\* the store's content and the mailbox are whatever was there before; the
\* recipient is one the provider accepts
InitWorking ==
  /\ Init
  /\ Accepts(Main)

WorkingGetThreadDirect == GetThreadDirect(Main) /\ ProviderWorks(Main)
WorkingGetThreadSearch == GetThreadSearch(Main) /\ ProviderWorks(Main)
WorkingReadThread      == ReadThread(Main) /\ ProviderWorks(Main)
WorkingExtractHeaders  == ExtractHeaders(Main) /\ ProviderWorks(Main)
WorkingSendReply       == SendReply(Main) /\ ProviderWorks(Main)
WorkingCreateDraftSend == CreateDraftSend(Main) /\ ProviderWorks(Main)

NextWorking ==
  \/ SendStart(Main)
  \/ WorkingGetThreadDirect
  \/ WorkingGetThreadSearch
  \/ WorkingReadThread
  \/ WorkingExtractHeaders
  \/ WorkingSendReply
  \/ CreateReadOld(Main)
  \/ CreateArchiveOld(Main)
  \/ WorkingCreateDraftSend
  \/ CreateStoreNew(Main)
  \/ CreateLogSubject(Main)
  \/ Finish(Main)
  \/ \E t \in ThreadIds : ExternalReply(t)

SpecWorking == InitWorking /\ [][NextWorking]_vars

\* ------------------------------------------------------ caller's options
\* sendThreadedEmail(htmlBody, options): the caller passes options of its own
SendWithOptions(p) == \E options \in CallerOptions : SendStartWith(p, options)

NextOptions ==
  \/ SendWithOptions(Main)
  \/ GetThreadDirect(Main)
  \/ GetThreadSearch(Main)
  \/ ReadThread(Main)
  \/ ExtractHeaders(Main)
  \/ SendReply(Main)
  \/ CreateReadOld(Main)
  \/ CreateArchiveOld(Main)
  \/ CreateDraftSend(Main)
  \/ CreateStoreNew(Main)
  \/ CreateLogSubject(Main)
  \/ Finish(Main)

SpecOptions == Init /\ [][NextOptions]_vars

\* ------------------------------------------------------------ two streams
\* A manager configured with the key K1 (Main) works next to another stream
\* whose manager is configured with a different key K2; the script's
\* properties are one store for both.  K2 is any other key string, the ones
\* that begin like a breadcrumb key included.
StreamKey == <<"weeklyThreadId">>

OtherStreamKeys ==
  {DefaultThreadIdProperty, PreviousKey(StreamKey), ArchivedKey(StreamKey)}

\* the id of the other stream's conversation, which this model's mailbox
\* does not hold
OtherStreamThread == "u1"

OtherKey == cfg[2].threadIdProperty

InitStreams ==
  /\ \E k2 \in OtherStreamKeys :
       cfg = [p \in Procs |->
                EmailThreadingManager(
                  CallerConfig(IF p = Main THEN StreamKey ELSE k2,
                               "a@x.com,b@x.com", <<"H">>))]
  /\ \E cur \in {NULL, ThreadNames[1]} :
       /\ mailbox = [i \in ThreadIds |->
                      IF i = ThreadNames[1] /\ cur # NULL
                      THEN Thread(<<SubjectHdr>>, PidNames[1], <<"H">>, Me)
                      ELSE NoThread]
       /\ props = [k \in PropKeys |->
                     IF k = cfg[Main].threadIdProperty THEN cur
                     ELSE IF k = OtherKey THEN OtherStreamThread
                     ELSE NULL]
  /\ props0 = [p \in Procs |-> props]
  /\ InitCommon
  /\ subject = <<>>
  /\ replySubject = <<>>

\* the calls of the manager configured with K1
NextStreams ==
  \/ sendThreadedEmail(Main)
  \/ resetThreading(Main)
  \/ getThreadInfo(Main)

SpecStreams == InitStreams /\ [][NextStreams]_vars

\* ------------------------------------------------------- later messages
\* Two streams whose conversations begin with the same first message and go
\* on differently: any number of later messages, by the script or by a
\* member, with or without threading headers of their own.
MaxLater == 2

LaterMessages ==
  {[from    |-> External,
    headers |-> <<Hdr("Message-ID:", <<" ">>, <<"<", "r1@y.com", ">">>, <<>>),
                  Hdr("References:", <<" ">>, <<"<", "z", ">">>, <<>>)>>,
    pid     |-> "q1"],
   [from    |-> Me, headers |-> <<SubjectHdr>>, pid |-> "q2"]}

StreamConfigs ==
  <<CallerConfig(<<>>, "group@googlegroups.com", <<"H">>),
    CallerConfig(<<"weeklyThreadId">>, "a@x.com,b@x.com", <<"R", "E", ":", "H">>)>>

InitLater ==
  /\ cfg = [p \in Procs |-> EmailThreadingManager(StreamConfigs[p])]
  /\ \E h \in HeaderBlocks(MsgIdNames[1]) :
       mailbox = [i \in ThreadIds |->
                    IF i \in {ThreadNames[1], ThreadNames[2]}
                    THEN Thread(h, PidNames[1], <<"H">>, Me) @@ [later |-> <<>>]
                    ELSE NoThread]
  /\ props = [k \in PropKeys |->
                IF k = cfg[1].threadIdProperty THEN ThreadNames[1]
                ELSE IF k = cfg[2].threadIdProperty THEN ThreadNames[2]
                ELSE NULL]
  /\ props0 = [p \in Procs |-> props]
  /\ nextThread = MaxThreads + 1
  /\ pc = [p \in Procs |-> "idle"]
  /\ loc = [p \in Procs |-> NoLoc]
  /\ result = [p \in Procs |-> "none"]
  /\ sent = [p \in Procs |-> <<>>]
  /\ lastOp = "none"
  /\ info = NoInfo
  /\ subject = <<>>
  /\ replySubject = <<>>

\* a message arrives in conversation t, before the streams' next sends
LaterMessage(t) ==
  /\ Idle
  /\ lastOp = "none"
  /\ mailbox[t].exists
  /\ Len(Later(mailbox[t])) < MaxLater
  /\ \E m \in LaterMessages :
       mailbox' = [mailbox EXCEPT ![t].later = Append(@, [headers |-> m.headers,
                                                          pid |-> m.pid]),
                                  ![t].lastFrom = m.from]
  /\ UNCHANGED <<props, nextThread, cfg, pc, loc, result, sent, props0,
                 lastOp, info, subject, replySubject>>

\* each stream sends once, the second after the first has left the reply
\* path: the streams share nothing, so the order of their steps is immaterial
StreamSends(p) ==
  /\ p # Main => pc[Main] \in {"done", "readOld"}
  /\ SendStart(p)

\* the reply path of sendThreadedEmail
NextLater ==
  \/ \E t \in ThreadIds : LaterMessage(t)
  \/ \E p \in Procs :
       \/ StreamSends(p)
       \/ GetThreadDirect(p)
       \/ GetThreadSearch(p)
       \/ ReadThread(p)
       \/ ExtractHeaders(p)
       \/ SendReply(p)

SpecLater == InitLater /\ [][NextLater]_vars

\* ------------------------------------------- properties of sendThreadedEmail
Done(p) == pc[p] = "done"

Replies(p) == {i \in DOMAIN sent[p] : sent[p][i].kind = "reply"}
News(p)    == {i \in DOMAIN sent[p] : sent[p][i].kind = "new"}

\* the invocation replied into the stored conversation and left the id alone
RepliedIntoStored(p) ==
  /\ Len(sent[p]) = 1
  /\ sent[p][1].kind = "reply"
  /\ sent[p][1].conv = loc[p].storedThreadId
  /\ props[Key(p)] = loc[p].storedThreadId
  /\ props[Key(p)] = props0[p][Key(p)]

\* the invocation started a conversation of its own and stored its id
StartedNew(p) ==
  /\ News(p) # {}
  /\ sent[p][Len(sent[p])].kind = "new"
  /\ sent[p][Len(sent[p])].conv # loc[p].storedThreadId
  /\ props[Key(p)] = sent[p][Len(sent[p])].conv

\* C1 as stated: an invocation that returns true with an id stored goes into
\* the conversation that id names and leaves the id unchanged, unless it
\* immediately follows resetThreading or its conversation resolution failed.
C1_SameConversation ==
  \A p \in Procs :
    ( /\ Done(p)
      /\ result[p] = "true"
      /\ loc[p].storedThreadId # NULL
      /\ loc[p].prevOp # "reset"
      /\ loc[p].reply # "notFound" )
    => RepliedIntoStored(p)

\* C1 as amended: an invocation that returns true goes into the conversation
\* the stored id names and leaves the id unchanged, unless it started with
\* nothing stored (a first send, or the send after resetThreading) or its
\* reply path failed (resolution failed, no Message-ID obtainable from the
\* first message, or a call of the reply path raised); then it starts a new
\* conversation and stores that one's id.
C1_SameConversationUnlessReplyFailed ==
  \A p \in Procs :
    (Done(p) /\ result[p] = "true") =>
      IF loc[p].storedThreadId # NULL /\ loc[p].reply = "sent"
      THEN RepliedIntoStored(p)
      ELSE /\ \/ loc[p].storedThreadId = NULL
              \/ loc[p].reply \in {"notFound", "noMessageId", "error"}
           /\ Replies(p) = {}
           /\ StartedNew(p)

C1_Witness ==
  /\ Done(Main)
  /\ result[Main] = "true"
  /\ loc[Main].storedThreadId = ThreadNames[2]
  /\ loc[Main].prevOp = "send"
  /\ RepliedIntoStored(Main)

\* C2: every message handed to the provider, reply or new conversation, is
\* addressed to the configured recipientEmail, whoever wrote the last message
\* of the conversation.
C2_RecipientEnforced ==
  \A p \in Procs : \A i \in DOMAIN sent[p] :
    sent[p][i].to = cfg[p].recipientEmail

C2_Witness ==
  /\ Done(Main)
  /\ Replies(Main) # {}
  /\ loc[Main].lastFrom = External
  /\ sent[Main][1].to = "group@googlegroups.com"

\* C3 as stated: with an id stored that neither lookup resolves, the
\* invocation creates a new conversation, overwrites the stored id with the
\* new one and does not raise.
C3_FallbackCreates ==
  \A p \in Procs :
    (Done(p) /\ loc[p].reply = "notFound") =>
      /\ result[p] # "raised"
      /\ StartedNew(p)

\* C3 as amended: with an id stored that neither lookup resolves, the
\* invocation does not raise, makes no reply dispatch and goes on to the
\* new-conversation path; when no provider or store call of that path raises
\* before the new id is stored, a new conversation exists and its id has
\* replaced the stored one.
C3_FallbackCreatesIfAccepted ==
  \A p \in Procs :
    (Done(p) /\ loc[p].reply = "notFound") =>
      /\ result[p] # "raised"
      /\ Replies(p) = {}
      /\ loc[p].raisedAt \in {"none", "getFirstMessageSubject"} => StartedNew(p)

C3_Witness ==
  /\ Done(Main)
  /\ loc[Main].reply = "notFound"
  /\ loc[Main].storedThreadId = ThreadNames[1]
  /\ result[Main] = "true"
  /\ props[Key(Main)] = ThreadNames[2]

\* C4: with nothing stored and a dispatch the provider accepts (the draft is
\* created and sent and the new thread's id is handed back, the store takes
\* the write), the invocation makes no lookup and no reply, creates one new
\* conversation, stores its id and returns true; a getThreadInfo that follows
\* reports the stored id as currentThreadId.
C4_FirstSend ==
  /\ \A p \in Procs :
       ( /\ Done(p)
         /\ result[p] # "raised"
         /\ loc[p].storedThreadId = NULL
         /\ loc[p].raisedAt \notin {"getProperty", "draftRaise", "sendRaise",
                                    "idRaise", "setProperty"} )
       => /\ loc[p].lookups = 0
          /\ Replies(p) = {}
          /\ Len(sent[p]) = 1
          /\ StartedNew(p)
          /\ result[p] = "true"
  /\ info.returned => info.currentThreadId = props[Key(Main)]

\* C5: sendThreadedEmail returns true or false whatever the collaborators do
\* and never lets an exception reach its caller; with the empty recipient it
\* returns false.
C5_NeverRaises ==
  \A p \in Procs :
    /\ result[p] \in {"none", "true", "false"}
    /\ (Done(p) /\ cfg[p].recipientEmail = "") => result[p] = "false"

\* C6: when sendThreadedEmail returns false, the value under the persistence
\* key is the one it had when the invocation started.
C6_FalsePreservesId ==
  \A p \in Procs :
    (Done(p) /\ result[p] = "false") =>
      props[Key(p)] = props0[p][Key(p)]

\* C7: when createNewThread fails (sendThreadedEmail returns false), no key of
\* the store differs from its value at the start of the invocation.
C7_FailedCreateWritesNothing ==
  \A p \in Procs :
    (Done(p) /\ result[p] = "false") => props = props0[p]

\* ------------------------------------------ properties of the reply headers
\* the values of the header fields of a message whose name is one of names
HeaderValues(headers, names) ==
  {headers[i].value : i \in {j \in DOMAIN headers : headers[j].name \in names}}

MessageIdNames  == {"Message-ID:", "Message-Id:", "message-id:", "MESSAGE-ID:"}
ReferencesNames == {"References:", "references:", "REFERENCES:"}

\* the first message of the conversation a dispatched reply went into
FirstHeaders(d) == mailbox[d.conv].headers

\* C8: when the first message of the resolved conversation carries Message-ID
\* M and no References header, the reply goes out with In-Reply-To: <M> and
\* References: <M>.
C8_HeadersFromMessageId ==
  \A p \in Procs : \A i \in Replies(p) : \A n \in 1..MaxThreads :
    LET d == sent[p][i]
        M == MsgIdNames[n]
    IN  ( /\ loc[p].raw = "ok"
          /\ HeaderValues(FirstHeaders(d), MessageIdNames) = {<<"<", M, ">">>}
          /\ HeaderValues(FirstHeaders(d), ReferencesNames) = {} )
        => /\ d.inReplyTo = <<"<", M, ">">>
           /\ d.references = <<"<", M, ">">>

C8_Witness ==
  /\ Done(Main)
  /\ Replies(Main) = {1}
  /\ loc[Main].raw = "ok"
  /\ FirstHeaders(sent[Main][1])[1].name = "message-id:"
  /\ HeaderValues(FirstHeaders(sent[Main][1]), ReferencesNames) = {}
  /\ sent[Main][1].inReplyTo = <<"<", MsgIdNames[1], ">">>

\* C9: when the first message carries Message-ID c and a References value r,
\* the reply's References header is r, one blank, then <c>; for r = "<a> <b>"
\* it is "<a> <b> <c>".
C9_ReferencesAppend ==
  \A p \in Procs : \A i \in Replies(p) : \A n \in 1..MaxThreads :
    \A r \in HeaderValues(FirstHeaders(sent[p][i]), ReferencesNames) :
      LET d == sent[p][i]
          c == MsgIdNames[n]
      IN  ( /\ loc[p].raw = "ok"
            /\ HeaderValues(FirstHeaders(d), MessageIdNames) = {<<"<", c, ">">>} )
          => d.references = r \o <<" ", "<", c, ">">>

C9_Witness ==
  /\ Done(Main)
  /\ Replies(Main) = {1}
  /\ loc[Main].raw = "ok"
  /\ sent[Main][1].references =
       <<"<", "a", ">", " ", "<", "b", ">", " ", "<", MsgIdNames[1], ">">>

\* ------------------------------ properties of resetThreading, getThreadInfo
\* the id the last resetThreading found under the key when it started
HeldAtReset == props0[Main][Key(Main)]

\* C11: after a resetThreading that ran to its end on a key that held id X,
\* whatever sends and resets came before it, the getThreadInfo that follows
\* reports currentThreadId as null and archivedThreadId as X.
C11_ResetThenInfo ==
  (lastOp = "reset" /\ HeldAtReset # NULL /\ info.returned) =>
    /\ info.currentThreadId = NULL
    /\ info.archivedThreadId = HeldAtReset

C11_Witness ==
  /\ lastOp = "reset"
  /\ info.returned
  /\ HeldAtReset = ThreadNames[2]
  /\ props0[Main][ArchivedKey(Key(Main))] = ThreadNames[1]
  /\ info.currentThreadId = NULL
  /\ info.archivedThreadId = ThreadNames[2]

\* C12: a resetThreading called while nothing is stored under the key leaves
\* every key of the store as it was, the archived id and the archive time of
\* an earlier reset included, so a second reset changes nothing.
C12_ResetIdempotent ==
  (lastOp \in {"reset", "resetRaised"} /\ HeldAtReset = NULL) =>
    props = props0[Main]

C12_Witness ==
  /\ lastOp = "reset"
  /\ HeldAtReset = NULL
  /\ props[ArchivedKey(Key(Main))] = ThreadNames[1]
  /\ props[ArchivedDateKey(Key(Main))] # NULL
  /\ props = props0[Main]

ReplyPath  == {"getThreadById", "search", "getMessages", "extract", "sendReply"}
CreatePath == {"readOld", "archiveOld", "createDraft", "storeNew", "logSubject"}

AskedFor(p, kind) == {i \in DOMAIN loc[p].asked : loc[p].asked[i] = kind}

\* C13: the sendThreadedEmail that follows a completed resetThreading makes no
\* lookup and asks for no reply, and takes the new-conversation path; when it
\* returns true it has dispatched one message that starts a new conversation,
\* and the key holds that conversation's id, which is not the archived one.
C13_SendAfterReset ==
  \A p \in Procs :
    (pc[p] # "idle" /\ loc[p].prevOp = "reset") =>
      /\ pc[p] \notin ReplyPath
      /\ loc[p].lookups = 0
      /\ loc[p].reply = "none"
      /\ AskedFor(p, "reply") = {}
      /\ Replies(p) = {}
      /\ (Done(p) /\ result[p] = "true") =>
           /\ Len(sent[p]) = 1
           /\ StartedNew(p)
           /\ props[Key(p)] # props[ArchivedKey(Key(p))]

C13_Witness ==
  /\ Done(Main)
  /\ loc[Main].prevOp = "reset"
  /\ result[Main] = "true"
  /\ props[ArchivedKey(Key(Main))] = ThreadNames[1]
  /\ props[Key(Main)] = ThreadNames[2]

\* C14: a call of getThreadInfo (a step that hands a new report, or the
\* exception of a store read, to the caller) changes neither the store nor
\* the mailbox and dispatches nothing, whatever the store holds and whatever
\* the provider does.
C14_InfoReadOnly ==
  [][(info' # info /\ info' # NoInfo) =>
       UNCHANGED <<props, mailbox, nextThread, sent, pc, result>>]_vars

C14_Witness ==
  /\ info.returned
  /\ info.currentThreadId = ThreadNames[1]
  /\ info.threadDetails = "null"
  /\ ~mailbox[ThreadNames[1]].exists
  /\ props[Key(Main)] = ThreadNames[1]

\* ------------------------------------------------- properties of the paths
FailedReply == {"notFound", "noMessageId", "error"}

\* C17: the reply path writes nothing to the store: while replyToExistingThread
\* runs, when it has returned false (the invocation is about to enter
\* createNewThread) and when it has returned true (the invocation returns
\* true), every key of the store has the value it had when the invocation
\* started; after a successful reply the stored id is the one replied into.
C17_ReplyPathNoWrite ==
  \A p \in Procs :
    /\ ( \/ pc[p] \in ReplyPath
         \/ pc[p] = "readOld" /\ loc[p].reply \in FailedReply
         \/ Done(p) /\ loc[p].reply = "sent" )
       => props = props0[p]
    /\ (Done(p) /\ loc[p].reply = "sent") =>
         props[Key(p)] = loc[p].storedThreadId

C17_Witness ==
  /\ Done(Main)
  /\ loc[Main].reply = "sent"
  /\ result[Main] = "true"
  /\ Replies(Main) = {1}
  /\ props[Key(Main)] = ThreadNames[2]
  /\ props[PreviousKey(Key(Main))] = ThreadNames[1]
  /\ props = props0[Main]

\* C18: one invocation asks the provider for at most two dispatches: at most
\* one reply, then at most one new conversation, the latter only when the
\* reply path did not succeed.  A failed reply path always leads into
\* createNewThread; a new-conversation dispatch that raises is not tried
\* again and the invocation returns false.
C18_AtMostTwoDispatches ==
  \A p \in Procs :
    /\ loc[p].asked \in {<<>>, <<"reply">>, <<"new">>, <<"reply", "new">>}
    /\ Len(sent[p]) <= Len(loc[p].asked)
    /\ AskedFor(p, "new") # {} => loc[p].reply # "sent"
    /\ loc[p].reply \in FailedReply => pc[p] \in CreatePath \cup {"done"}
    /\ (Done(p) /\ loc[p].reply \in FailedReply) =>
         \/ result[p] = "true" /\ StartedNew(p)
         \/ /\ result[p] = "false"
            /\ loc[p].raisedAt \in {"getProperty", "setPrevious", "draftRaise",
                                    "sendRaise", "idRaise", "setProperty",
                                    "getFirstMessageSubject"}
    /\ loc[p].raisedAt \in {"draftRaise", "sendRaise", "idRaise"} =>
         /\ Done(p)
         /\ result[p] = "false"
         /\ Cardinality(AskedFor(p, "new")) = 1

C18_Witness ==
  /\ Done(Main)
  /\ loc[Main].asked = <<"reply", "new">>
  /\ loc[Main].raisedAt = "sendRaise"
  /\ result[Main] = "false"
  /\ sent[Main] = <<>>

\* the invocation fell back from stored id X and the provider created the new
\* conversation and handed back its id Y
FellBackAndCreated(p) ==
  /\ Done(p)
  /\ loc[p].storedThreadId # NULL
  /\ loc[p].reply \in FailedReply
  /\ loc[p].newThreadId # NULL

\* the 'previous' key is written while the persistence key still holds X
PreviousWrittenFirst(p) ==
  (pc[p] \in {"createDraft", "storeNew"} /\ loc[p].oldThreadId # NULL) =>
    /\ props[PreviousKey(Key(p))] = loc[p].oldThreadId
    /\ props[Key(p)] = loc[p].oldThreadId

\* C19 as stated: when the invocation falls back after a failed reply against
\* stored id X and the new conversation is created with id Y, then on return
\* the 'previous' key holds X and the persistence key holds Y, and X was
\* written to the 'previous' key before the persistence key was overwritten.
C19_FallbackKeys ==
  \A p \in Procs :
    /\ FellBackAndCreated(p) =>
         /\ props[PreviousKey(Key(p))] = loc[p].storedThreadId
         /\ props[Key(p)] = loc[p].newThreadId
    /\ PreviousWrittenFirst(p)

\* C19 as amended: when the invocation falls back after a failed reply against
\* stored id X and the new conversation is created with id Y, then on return
\* the 'previous' key holds X, and the persistence key holds Y unless the
\* store raised on the write of Y, in which case it still holds X and the
\* invocation returns false; X is written to the 'previous' key before the
\* persistence key is overwritten.
C19_FallbackKeysIfStoreAccepts ==
  \A p \in Procs :
    /\ FellBackAndCreated(p) =>
         /\ props[PreviousKey(Key(p))] = loc[p].storedThreadId
         /\ IF loc[p].raisedAt = "setProperty"
            THEN props[Key(p)] = loc[p].storedThreadId /\ result[p] = "false"
            ELSE props[Key(p)] = loc[p].newThreadId
    /\ PreviousWrittenFirst(p)

C19_Witness ==
  /\ FellBackAndCreated(Main)
  /\ loc[Main].storedThreadId = ThreadNames[1]
  /\ loc[Main].newThreadId = ThreadNames[2]
  /\ props[PreviousKey(Key(Main))] = ThreadNames[1]
  /\ props[Key(Main)] = ThreadNames[2]
  /\ result[Main] = "true"

\* C20: getThread never raises: from the direct lookup and from the fallback
\* search, whatever each of them does (finds the conversation, finds nothing,
\* raises), the invocation goes on either with a conversation that exists or
\* with null, which replyToExistingThread reports as "not found"; nothing is
\* handed to a catch block outside getThread and nothing reaches the caller.
C20_GetThreadNeverRaises ==
  [][\A p \in Procs :
       (pc[p] \in {"getThreadById", "search"} /\ pc'[p] # pc[p]) =>
         /\ result'[p] = result[p]
         /\ loc'[p].lookups = loc[p].lookups + 1
         /\ \/ pc[p] = "getThreadById" /\ pc'[p] = "search"
               /\ loc'[p].thread = NULL /\ loc'[p].reply = "none"
            \/ /\ pc'[p] = "getMessages"
               /\ loc'[p].thread = loc[p].storedThreadId
               /\ mailbox[loc'[p].thread].exists
               /\ loc'[p].reply = "none"
            \/ /\ pc[p] = "search" /\ pc'[p] = "readOld"
               /\ loc'[p].thread = NULL
               /\ loc'[p].reply = "notFound"]_vars

C20_Witness ==
  /\ pc[Main] = "getMessages"
  /\ loc[Main].lookups = 2
  /\ loc[Main].thread = ThreadNames[2]

\* ------------------------------------------ properties of overlapping sends
\* the invocation has created a conversation and stored its id
HasStoredNew(p) ==
  /\ pc[p] \in {"logSubject", "done"}
  /\ loc[p].newThreadId # NULL
  /\ loc[p].raisedAt # "setProperty"

HeldUnderNoKey(store, id) == \A k \in DOMAIN store : store[k] # id

\* C16: nothing orders the read-decide-write of two overlapping invocations on
\* one key: the write of an invocation's new id lands whatever the key holds
\* by then, so the key holds the id written last; and when the other
\* invocation has created and stored a conversation too, both having found
\* the key empty, the other conversation's id is then stored under no key,
\* neither the persistence key nor 'previous'.
C16_LastWriteWins ==
  [][\A p \in Procs :
       (pc[p] = "storeNew" /\ pc'[p] = "logSubject") =>
         /\ props'[Key(p)] = loc[p].newThreadId
         /\ \A q \in Procs \ {p} :
              ( /\ HasStoredNew(q)
                /\ loc[p].oldThreadId = NULL
                /\ loc[q].oldThreadId = NULL )
              => /\ loc[q].newThreadId # loc[p].newThreadId
                 /\ props[Key(p)] = loc[q].newThreadId
                 /\ HeldUnderNoKey(props', loc[q].newThreadId)]_vars

C16_Witness ==
  /\ \A p \in Procs :
       /\ Done(p)
       /\ result[p] = "true"
       /\ loc[p].storedThreadId = NULL
       /\ News(p) = {1}
  /\ loc[1].newThreadId = ThreadNames[MaxThreads - 1]
  /\ loc[2].newThreadId = ThreadNames[MaxThreads]
  /\ props[Key(1)] = ThreadNames[MaxThreads - 1]
  /\ HeldUnderNoKey(props, ThreadNames[MaxThreads])

\* ------------------------------------------ properties of the functional API
\* C15: the configured recipients, one address or a list, become one
\* comma-joined string, and every message the functions dispatch, the one that
\* starts a conversation and every reply, group-looking recipient or not, has
\* that string as its destination.
C15_RecipientsForcedOnEveryReply ==
  \A p \in Procs : \A i \in DOMAIN sent[p] :
    /\ sent[p][i].to = RecipientString(cfg[p].recipientEmail)
    /\ sent[p][i].forced

NoHeaderMessageId(p) ==
  /\ loc[p].thread # NULL
  /\ \/ loc[p].raw = "raise"
     \/ /\ loc[p].raw = "ok"
        /\ MessageIdMatch(getRawContent(mailbox[loc[p].thread].headers), 1) = <<>>

\* the pseudo Message-ID made of the provider's own id of that first message
PseudoId(p) == Bracket(<<mailbox[loc[p].thread].pid, GmailDomain>>)

EndsWith(s, tail) ==
  Len(s) >= Len(tail) /\ SubSeq(s, Len(s) - Len(tail) + 1, Len(s)) = tail

\* C22: a reply into a conversation whose first message gave no Message-ID
\* through its raw content, but has provider id P, carries In-Reply-To
\* <P@mail.gmail.com> and a References value that ends with <P@mail.gmail.com>;
\* when neither the header nor the provider id could be had, the reply path
\* has given up (sendThreadedEmail goes on to createNewThread) and no reply
\* was dispatched nor asked for.
C22_PseudoMessageId ==
  \A p \in Procs :
    /\ \A i \in Replies(p) :
         NoHeaderMessageId(p) =>
           /\ sent[p][i].inReplyTo = PseudoId(p)
           /\ EndsWith(sent[p][i].references, PseudoId(p))
    /\ pc[p] = "sendReply" /\ NoHeaderMessageId(p) =>
         /\ ReplyMessage(p).inReplyTo = PseudoId(p)
         /\ EndsWith(ReplyMessage(p).references, PseudoId(p))
    /\ loc[p].reply = "noMessageId" =>
         /\ Replies(p) = {}
         /\ AskedFor(p, "reply") = {}
         /\ pc[p] \in CreatePath \cup {"done"}

C22_Witness ==
  /\ Done(Main)
  /\ result[Main] = "true"
  /\ NoHeaderMessageId(Main)
  /\ loc[Main].raw = "ok"
  /\ loc[Main].threadingInfo.references # <<>>
  /\ Replies(Main) = {1}
  /\ sent[Main][1].inReplyTo = <<"<", "p1", "@mail.gmail.com", ">">>

\* C23: the threading headers of a reply come from the conversation's first
\* message alone: two conversations that begin with the same first message,
\* read by the provider with the same outcome, get replies with the same
\* In-Reply-To and References headers, whatever messages came later.
C23_FirstMessageOnly ==
  /\ Replies(1) # {}
  /\ Replies(2) # {}
  /\ Messages(mailbox[loc[1].thread])[1] = Messages(mailbox[loc[2].thread])[1]
  /\ loc[1].raw = loc[2].raw
  => \A i \in Replies(1), j \in Replies(2) :
       /\ sent[1][i].inReplyTo = sent[2][j].inReplyTo
       /\ sent[1][i].references = sent[2][j].references

C23_Witness ==
  /\ Replies(1) # {}
  /\ Replies(2) # {}
  /\ loc[1].thread # loc[2].thread
  /\ loc[1].raw = loc[2].raw
  /\ Len(Later(mailbox[loc[1].thread])) = 1
  /\ Len(Later(mailbox[loc[2].thread])) = MaxLater
  /\ mailbox[loc[1].thread].later[1].pid = "q2"
  /\ mailbox[loc[2].thread].later[MaxLater].pid = "q1"

\* ------------------------------------- properties of the new conversation
\* C24: every message that starts a new conversation, on a first send or
\* after a failed reply, with or without options of the caller, has the
\* configured subject as it is and no In-Reply-To and no References header.
C24_NewConversationPlain ==
  \A p \in Procs : \A i \in News(p) :
    /\ sent[p][i].subject = cfg[p].emailSubject
    /\ sent[p][i].inReplyTo = <<>>
    /\ sent[p][i].references = <<>>

\* ------------------------------------------- properties of the breadcrumbs
\* the value the persistence key held when invocation p began
KeyAtStart(p) == props0[p][Key(p)]

\* the breadcrumb keys of invocation p's stream
Breadcrumbs(p) == {PreviousKey(Key(p)), ArchivedKey(Key(p)), ArchivedDateKey(Key(p))}

\* the return value of sendThreadedEmail as the provider's answers give it
ReturnOf(p) ==
  IF loc[p].reply = "sent" THEN "true"
  ELSE IF loc[p].raisedAt = "none" THEN "true"
  ELSE IF pc[p] = "done" /\ result[p] = "raised" THEN "raised"
  ELSE "false"

\* C25: what sendThreadedEmail does is given by the value under the
\* persistence key and by the provider's answers; the values under the
\* 'previous', 'archived' and archive-timestamp keys do not enter: the id
\* looked up is the one the key held, the reply path is taken exactly when the
\* key held one, the old id createNewThread keeps is the key's, the value
\* returned follows from the provider's answers, and the key ends with the new
\* conversation's id when that was written and with its old value otherwise;
\* after a completed resetThreading the key is empty whatever the breadcrumbs
\* held.
C25_BreadcrumbsNotRead ==
  /\ \A p \in {Main} :
       pc[p] # "idle" /\ result[p] # "raised" =>
         /\ loc[p].storedThreadId = KeyAtStart(p)
         /\ pc[p] \in ReplyPath => KeyAtStart(p) # NULL
         /\ KeyAtStart(p) # NULL => loc[p].lookups > 0 \/ pc[p] = "getThreadById"
         /\ KeyAtStart(p) = NULL => loc[p].lookups = 0 /\ loc[p].reply = "none"
         /\ loc[p].oldThreadId \in {NULL, KeyAtStart(p)}
         /\ pc[p] \in {"archiveOld", "createDraft", "storeNew", "logSubject"} =>
              loc[p].oldThreadId = KeyAtStart(p)
         /\ pc[p] = "done" =>
              /\ result[p] = ReturnOf(p)
              /\ props[Key(p)] =
                   IF loc[p].newThreadId # NULL /\ loc[p].raisedAt # "setProperty"
                   THEN loc[p].newThreadId
                   ELSE KeyAtStart(p)
              /\ \A i \in DOMAIN sent[p] :
                   sent[p][i] = IF sent[p][i].kind = "reply" THEN ReplyMessage(p)
                                ELSE [NewMessage(p) EXCEPT
                                        !.conv = sent[p][i].conv]
  /\ Idle /\ lastOp = "reset" => props[Key(Main)] = NULL

C25_Witness ==
  /\ Done(Main)
  /\ result[Main] = "true"
  /\ props0[Main][PreviousKey(Key(Main))] # NULL
  /\ props0[Main][ArchivedKey(Key(Main))] # NULL
  /\ props0[Main][ArchivedKey(Key(Main))] # props0[Main][PreviousKey(Key(Main))]

\* --------------------------------------------- properties of getThreadInfo
\* C26: when an id is stored and the inspection of its conversation raises
\* (what the lookup returned cannot be used, the message list is empty, a
\* date or the labels cannot be read), getThreadInfo returns: the info object
\* holds the current, previous and archived ids as the store has them and
\* threadDetails is the error record; when the conversation is not found,
\* threadDetails is null.  The only call of getThreadInfo that can raise is a
\* read of the store.
C26_InfoOnInspectionFailure ==
  /\ info.returned =>
       /\ info.inspected \in {"unusable", "empty", "access"} =>
            /\ info.threadDetails = "error"
            /\ info.currentThreadId = props[Key(Main)]
            /\ info.currentThreadId # NULL
            /\ info.previousThreadId = props[PreviousKey(Key(Main))]
            /\ info.archivedThreadId = props[ArchivedKey(Key(Main))]
       /\ info.inspected = "notFound" =>
            /\ info.threadDetails = "null"
            /\ info.currentThreadId = props[Key(Main)]
            /\ info.currentThreadId # NULL
       /\ info.inspected = "none" <=> info.currentThreadId = NULL
  /\ info # NoInfo /\ ~info.returned => info.raised = "getProperty"

C26_Witness ==
  /\ info.returned
  /\ info.inspected = "empty"
  /\ info.threadDetails = "error"
  /\ info.currentThreadId = ThreadNames[2]
  /\ info.previousThreadId = ThreadNames[1]

\* ----------------------------------------------- properties of two streams
\* C27: streams with different persistence keys are isolated: whatever the
\* two distinct key strings K1 and K2 are, no call of sendThreadedEmail,
\* resetThreading or getThreadInfo on the manager configured with K1 changes
\* the value stored under K2.
C27_StreamsIsolated == [][props'[OtherKey] = props[OtherKey]]_vars

\* ------------------------------------------- properties of the return value
\* C28: sendThreadedEmail returns true exactly when the provider dispatched
\* one message during the invocation, and never returns false after a message
\* went out.
C28_ReturnTellsDispatch ==
  \A p \in Procs :
    Done(p) =>
      /\ result[p] = "true" <=> Len(sent[p]) = 1
      /\ result[p] = "false" => sent[p] = <<>>

\* ------------------------------------------- properties of repeated replies
\* C30: formatReplySubject is idempotent: for every subject, in any letter
\* case and with whitespace anywhere, handing the reply subject to
\* formatReplySubject again gives the same reply subject, however often.
C30_Idempotent ==
  replySubject # <<>> => replySubject = formatReplySubject(subject)

\* C30, amended: formatReplySubject is idempotent on every subject that does
\* not begin with whitespace; for a subject that begins with whitespace the
\* first application keeps that whitespace behind "Re: " and the second drops
\* it, after which the reply subject stays the same.
C30_IdempotentUnlessLeadingBlank ==
  replySubject # <<>> =>
    /\ subject = <<>> \/ ~IsSpace(subject[1]) =>
         replySubject = formatReplySubject(subject)
    /\ replySubject \in {formatReplySubject(subject),
                         formatReplySubject(TrimLeft(subject))}

C30_Witness ==
  /\ subject = <<"R", "E", ":", "r", "e", ":", " ", " ", "R", "e", ":", "H">>
  /\ replySubject = <<"R", "e", ":", " ", "H">>
  /\ formatReplySubject(replySubject) = replySubject

\* --------------------------------------- properties of the working provider
\* a conversation the mailbox holds under the id t
Resolvable(t) == t # NULL /\ mailbox[t].exists

\* the store accepted every read and write of invocation p
StoreAccepted(p) ==
  /\ result[p] # "raised"
  /\ loc[p].raisedAt \notin {"getProperty", "setPrevious", "setProperty"}

====
